---- MODULE Spec2Model ----
(***************************************************************************)
(* ElizaClient: the session manager and message-correlation engine of the  *)
(* ElizaOS connector.  One client object owns a socket.io transport, joins *)
(* the room of the configured agent, emits SEND envelopes and pairs        *)
(* inbound broadcasts with pending waiters.                                *)
(*                                                                         *)
(* JavaScript runs one callback at a time, so every action below is one    *)
(* macrotask: a public call up to its first real suspension, or one        *)
(* transport event / timer callback together with the promise              *)
(* continuations (microtasks) it releases.                                 *)
(*                                                                         *)
(* The transport (socket.io-client) is the environment.  Its modelled      *)
(* behaviour: io() returns a socket that is not yet connected; `connect`   *)
(* fires when it opens (again after an automatic reconnection);            *)
(* `disconnect` fires when an open socket closes, and a client-side        *)
(* socket.disconnect() on an open socket runs the `disconnect` handler     *)
(* before it returns; messageBroadcast is delivered on open sockets only.  *)
(***************************************************************************)
EXTENDS Integers, Sequences, FiniteSets, TLC

(* ------------------------------ bounds -------------------------------- *)
MaxCalls == 4          \* public calls made in one behaviour
MaxSockets == 2        \* transports opened in one behaviour
MaxIn == 3             \* inbound broadcast envelopes in one behaviour
MaxDrops == 1          \* transport-level connection losses in one behaviour
MaxListeners == 1      \* registered general message observers
MaxReconfCalls == 3    \* public calls in one behaviour of SpecReconf
MaxReconfIn == 1       \* inbound broadcasts in one behaviour of SpecReconf
MaxObservers == 2      \* observers registered in one behaviour of SpecObs
MaxObsCalls == 2       \* public calls in one behaviour of SpecObs
MaxToolCalls == 3      \* calls in one behaviour of SpecTool
MaxSendCalls == 3      \* public calls in one behaviour of SpecSend
MaxAwaitCalls == 3     \* public calls in one behaviour of SpecAwait
MaxTimeCalls == 3      \* public calls in one behaviour of SpecTime

(* ------------------------------ inputs -------------------------------- *)
Ids == {"A", "B"}
IdOrEmpty == Ids \cup {""}
\* text bodies as character sequences; an envelope may also carry no text
Texts == {<<>>, <<" ">>, <<"h">>}
OutTexts == {"hi", "yo"}
\* observers are numbered within their kind
ListenerIds == 1..(MaxListeners + MaxObservers)

\* ConnectionState enum
DISCONNECTED == "disconnected"
CONNECTING == "connecting"
CONNECTED == "connected"
ERROR == "error"

\* the constructor's defaults, in milliseconds
DefaultConnectionTimeout == 120000
DefaultResponseTimeout == 90000

\* SOCKET_MESSAGE_TYPE enum
ROOM_JOINING == 1
SEND_MESSAGE == 2

VARIABLES
  config,            \* this.config
  connectionState,   \* this.connectionState
  roomJoined,        \* this.roomJoined
  socket,            \* this.socket: 0 is null, else an index into socks
  messageQueue,      \* this.messageQueue
  resolvers,         \* this.resolvers: the call each resolver closure belongs to
  messageListeners,  \* this.messageListeners
  stateChangeListeners, \* this.stateChangeListeners
  errorListeners,    \* this.errorListeners
  throwing,          \* the registered observers <<kind, l>> whose callback throws
  socks,             \* every socket io() has returned, with its connect attempt
                     \* and the rooms joined on it in its present connection
  calls,             \* every public call made, with the promise it returned
  out,               \* envelopes emitted with socket.emit('message', ..)
  heard,             \* heard[l]: ids of the envelopes listener l was called with
  stateHeard,        \* stateHeard[l]: the states stateChange listener l was called with
  errorHeard,        \* errorHeard[l]: the errors error listener l was called with
  listenerErrors,    \* observer failures caught and logged so far
  nIn,               \* broadcasts delivered so far (gives envelopes their id)
  validIds,          \* ids of the broadcasts that passed the reply filter, in order
  nDrops             \* transport-level connection losses so far

vars == <<config, connectionState, roomJoined, socket, messageQueue, resolvers,
          messageListeners, stateChangeListeners, errorListeners, throwing,
          socks, calls, out, heard, stateHeard, errorHeard, listenerErrors,
          nIn, validIds, nDrops>>

\* the whole state as one record, so that handlers compose as functions
W ==
  [config |-> config, connectionState |-> connectionState,
   roomJoined |-> roomJoined, socket |-> socket,
   messageQueue |-> messageQueue, resolvers |-> resolvers,
   messageListeners |-> messageListeners,
   stateChangeListeners |-> stateChangeListeners,
   errorListeners |-> errorListeners, throwing |-> throwing,
   socks |-> socks, calls |-> calls,
   out |-> out, heard |-> heard, stateHeard |-> stateHeard,
   errorHeard |-> errorHeard, listenerErrors |-> listenerErrors,
   nIn |-> nIn, validIds |-> validIds, nDrops |-> nDrops]

Commit(w) ==
  /\ config' = w.config
  /\ connectionState' = w.connectionState
  /\ roomJoined' = w.roomJoined
  /\ socket' = w.socket
  /\ messageQueue' = w.messageQueue
  /\ resolvers' = w.resolvers
  /\ messageListeners' = w.messageListeners
  /\ stateChangeListeners' = w.stateChangeListeners
  /\ errorListeners' = w.errorListeners
  /\ throwing' = w.throwing
  /\ socks' = w.socks
  /\ calls' = w.calls
  /\ out' = w.out
  /\ heard' = w.heard
  /\ stateHeard' = w.stateHeard
  /\ errorHeard' = w.errorHeard
  /\ listenerErrors' = w.listenerErrors
  /\ nIn' = w.nIn
  /\ validIds' = w.validIds
  /\ nDrops' = w.nDrops

(* --------------------------- construction ----------------------------- *)
\* constructor: config from the caller, everything else at its field default
\* (agent and room unset, set and equal, set and different)
InitConfigs ==
  {[agentId |-> p[1], roomId |-> p[2], serverUrl |-> "url", userId |-> "u",
    worldId |-> "w", connectionTimeout |-> DefaultConnectionTimeout,
    responseTimeout |-> DefaultResponseTimeout] :
     p \in {<<"", "">>, <<"A", "A">>, <<"A", "B">>}}

Init ==
  /\ config \in InitConfigs
  /\ connectionState = DISCONNECTED
  /\ roomJoined = FALSE
  /\ socket = 0
  /\ messageQueue = <<>>
  /\ resolvers = <<>>
  /\ messageListeners = <<>>
  /\ stateChangeListeners = <<>>
  /\ errorListeners = <<>>
  /\ throwing = {}
  /\ socks = <<>>
  /\ calls = <<>>
  /\ out = <<>>
  /\ heard = [l \in ListenerIds |-> <<>>]
  /\ stateHeard = [l \in ListenerIds |-> <<>>]
  /\ errorHeard = [l \in ListenerIds |-> <<>>]
  /\ listenerErrors = 0
  /\ nIn = 0
  /\ validIds = <<>>
  /\ nDrops = 0

(* ----------------------------- promises ------------------------------- *)
\* the promise a public call returned: pc is where the async function is
\* suspended, att the connect attempt it awaits, timer its response timer,
\* delay the milliseconds that timer was last armed with, at the number of
\* broadcasts that had arrived when the call was made
NewCall(op, arg, at) ==
  [op |-> op, pc |-> "run", att |-> 0, timer |-> FALSE, delay |-> 0,
   settled |-> "pending", error |-> "", result |-> <<>>, arg |-> arg,
   at |-> at]

\* resolve()/reject() of a promise: only the first settlement counts
Resolve(w, c, result) ==
  IF w.calls[c].settled # "pending" THEN w
  ELSE [w EXCEPT !.calls[c].settled = "resolved", !.calls[c].result = result,
                 !.calls[c].pc = "done"]

Reject(w, c, err) ==
  IF w.calls[c].settled # "pending" THEN w
  ELSE [w EXCEPT !.calls[c].settled = "rejected", !.calls[c].error = err,
                 !.calls[c].pc = "done"]

(* ------------------------- session lifecycle -------------------------- *)
\* socket?.connected
SockConnected(w, s) == s # 0 /\ w.socks[s].status = "connected"

\* try { listener(..) } catch (err) { this.logger.error(..) } around the call
\* of observer l of the given kind: a failure is logged and goes no further
caught(w, kind, l) ==
  IF <<kind, l>> \in w.throwing THEN [w EXCEPT !.listenerErrors = @ + 1]
  ELSE w

\* for (const listener of this.stateChangeListeners) listener(state)
RECURSIVE tellStateListeners(_, _, _)
tellStateListeners(w, ls, state) ==
  IF ls = <<>> THEN w
  ELSE tellStateListeners(
         caught([w EXCEPT !.stateHeard[Head(ls)] = Append(@, state)],
                "stateChange", Head(ls)),
         Tail(ls), state)

\* faulty variant: updateState without its same-state early return
updateStateAlways(w, state) ==
  tellStateListeners([w EXCEPT !.connectionState = state],
                     w.stateChangeListeners, state)

updateState(w, state) ==
  IF w.connectionState = state THEN w
  ELSE tellStateListeners([w EXCEPT !.connectionState = state],
                          w.stateChangeListeners, state)

\* for (const listener of this.errorListeners) listener(error)
RECURSIVE tellErrorListeners(_, _, _)
tellErrorListeners(w, ls, error) ==
  IF ls = <<>> THEN w
  ELSE tellErrorListeners(
         caught([w EXCEPT !.errorHeard[Head(ls)] = Append(@, error)],
                "error", Head(ls)),
         Tail(ls), error)

handleError(w, error) ==
  LET w1 == updateState(w, ERROR)
  IN tellErrorListeners(w1, w1.errorListeners, error)

\* faulty variant: joinRoom without its already-joined test
joinRoomAgain(w) ==
  IF ~SockConnected(w, w.socket) THEN w
  ELSE IF w.config.roomId = "" \/ w.config.agentId = "" THEN w
  ELSE [w EXCEPT
          !.out = Append(@, [sock |-> w.socket, type |-> ROOM_JOINING,
                             payload |-> [roomId |-> w.config.roomId,
                                          agentIds |-> <<w.config.agentId>>]]),
          !.socks[w.socket].joins = Append(@, w.config.roomId),
          !.roomJoined = TRUE]

joinRoom(w) ==
  IF ~SockConnected(w, w.socket) THEN w
  ELSE IF w.roomJoined THEN w
  ELSE IF w.config.roomId = "" \/ w.config.agentId = "" THEN w
  ELSE [w EXCEPT
          !.out = Append(@, [sock |-> w.socket, type |-> ROOM_JOINING,
                             payload |-> [roomId |-> w.config.roomId,
                                          agentIds |-> <<w.config.agentId>>]]),
          !.socks[w.socket].joins = Append(@, w.config.roomId),
          !.roomJoined = TRUE]

\* faulty variant: connect() without its already-connected early return
connectAlways(w) ==
  IF w.config.agentId = "" \/ w.config.roomId = ""
    THEN [w |-> w, res |-> "configNotSet", att |-> 0]
  ELSE IF w.config.agentId # w.config.roomId
    THEN [w |-> w, res |-> "configMismatch", att |-> 0]
  ELSE LET w1 == updateState(w, CONNECTING)
           s == Len(w.socks) + 1
       IN [w |-> [w1 EXCEPT
                    !.socks = Append(@, [status |-> "opening", timer |-> TRUE,
                                         promise |-> "pending", joins |-> <<>>]),
                    !.socket = s],
           res |-> "pending", att |-> s]

\* connect() up to the point where it returns its promise.  res is "true"
\* (resolved at once), an error name (thrown) or "pending" with the attempt.
connect(w) ==
  IF SockConnected(w, w.socket) THEN [w |-> w, res |-> "true", att |-> 0]
  ELSE IF w.config.agentId = "" \/ w.config.roomId = ""
    THEN [w |-> w, res |-> "configNotSet", att |-> 0]
  ELSE IF w.config.agentId # w.config.roomId
    THEN [w |-> w, res |-> "configMismatch", att |-> 0]
  ELSE LET w1 == updateState(w, CONNECTING)
           s == Len(w.socks) + 1
       IN [w |-> [w1 EXCEPT
                    !.socks = Append(@, [status |-> "opening", timer |-> TRUE,
                                         promise |-> "pending", joins |-> <<>>]),
                    !.socket = s],
           res |-> "pending", att |-> s]

\* disconnect(): socket.disconnect() on an open socket closes it and runs
\* the 'disconnect' handler; on a socket still opening it only destroys it
disconnect(w) ==
  IF w.socket = 0 THEN w
  ELSE IF SockConnected(w, w.socket)
    THEN LET w1 == [w EXCEPT !.socks[w.socket].status = "closed",
                             !.socks[w.socket].joins = <<>>]
         IN [updateState(w1, DISCONNECTED) EXCEPT !.roomJoined = FALSE]
  ELSE [w EXCEPT !.socks[w.socket].status = "closed"]

(* ------------------------ outbound dispatch --------------------------- *)
\* socket.emit('message', {type: SEND_MESSAGE, payload: ..}) of call c; the
\* generated messageId is unique per call and is modelled by the call number
emitSend(w, c) ==
  [w EXCEPT
     !.out = Append(@, [sock |-> w.socket, type |-> SEND_MESSAGE,
                        payload |-> [senderId |-> w.config.userId,
                                     senderName |-> "mcp-user",
                                     message |-> w.calls[c].arg[1],
                                     roomId |-> w.config.roomId,
                                     agentId |-> w.config.agentId,
                                     worldId |-> w.config.worldId,
                                     messageId |-> c,
                                     source |-> "mcp_client_chat"]])]

\* faulty variant: sendMessage emitting its envelope twice
sendTailTwice(w, c) ==
  IF ~w.roomJoined /\ w.connectionState # CONNECTED
    THEN Reject(w, c, "notEstablished")
  ELSE LET w1 == IF ~w.roomJoined THEN joinRoom(w) ELSE w
       IN IF w1.socket # 0 THEN Resolve(emitSend(emitSend(w1, c), c), c, <<>>)
          ELSE Reject(w1, c, "socketNotInitialized")

\* sendMessage after its connection check: join if needed, then emit
sendTail(w, c) ==
  IF ~w.roomJoined /\ w.connectionState # CONNECTED
    THEN Reject(w, c, "notEstablished")
  ELSE LET w1 == IF ~w.roomJoined THEN joinRoom(w) ELSE w
       IN IF w1.socket # 0 THEN Resolve(emitSend(w1, c), c, <<>>)
          ELSE Reject(w1, c, "socketNotInitialized")

\* the error-shaped AgentResponseMessage sendMessageAndGetResponse resolves with
SoftError(msg, requestId) ==
  [payload |-> [message |-> [error |-> msg], requestId |-> requestId],
   status |-> "error", error |-> msg]

\* resolvers.filter(r => r !== resolverWrapper)
RECURSIVE Without(_, _)
Without(seq, c) ==
  IF seq = <<>> THEN <<>>
  ELSE IF Head(seq) = c THEN Without(Tail(seq), c)
  ELSE <<Head(seq)>> \o Without(Tail(seq), c)

\* faulty variant: sendMessageAndGetResponse emitting without having pushed
\* its resolver
sendAndAwaitTailUnregistered(w, c) ==
  IF ~w.roomJoined /\ w.connectionState # CONNECTED
    THEN Resolve(w, c, <<SoftError("notEstablished", 0)>>)
  ELSE LET w1 == IF ~w.roomJoined THEN joinRoom(w) ELSE w
           w2 == [w1 EXCEPT !.calls[c].timer = TRUE,
                            !.calls[c].delay = w1.config.responseTimeout,
                            !.calls[c].pc = "awaitReply"]
       IN IF w2.socket # 0 THEN emitSend(w2, c)
          ELSE Resolve([w2 EXCEPT !.calls[c].timer = FALSE],
                       c, <<SoftError("socketNotInitialized", c)>>)

\* sendMessageAndGetResponse after its connection check: join if needed,
\* arm the response timer, push the resolver, emit
sendAndAwaitTail(w, c) ==
  IF ~w.roomJoined /\ w.connectionState # CONNECTED
    THEN Resolve(w, c, <<SoftError("notEstablished", 0)>>)
  ELSE LET w1 == IF ~w.roomJoined THEN joinRoom(w) ELSE w
           w2 == [w1 EXCEPT !.calls[c].timer = TRUE,
                            !.calls[c].delay = w1.config.responseTimeout,
                            !.calls[c].pc = "awaitReply",
                            !.resolvers = Append(@, c)]
       IN IF w2.socket # 0 THEN emitSend(w2, c)
          ELSE Resolve([w2 EXCEPT !.calls[c].timer = FALSE,
                                  !.resolvers = Without(@, c)],
                       c, <<SoftError("socketNotInitialized", c)>>)

(* ------------------------ inbound correlation ------------------------- *)
IsSpace(ch) == ch = " "

RECURSIVE TrimStart(_)
TrimStart(t) ==
  IF t # <<>> /\ IsSpace(Head(t)) THEN TrimStart(Tail(t)) ELSE t

RECURSIVE TrimEnd(_)
TrimEnd(t) ==
  IF t # <<>> /\ IsSpace(t[Len(t)]) THEN TrimEnd(SubSeq(t, 1, Len(t) - 1))
  ELSE t

\* String.prototype.trim
Trim(t) == TrimEnd(TrimStart(t))

\* faulty variant: the reply filter without the sender test
IsValidReplyAnySender(w, data) ==
  /\ "text" \in DOMAIN data
  /\ data.text # <<>>
  /\ Trim(data.text) # <<>>

\* data.text && data.text.trim() !== '' && data.senderId === this.config.agentId
IsValidReply(w, data) ==
  /\ "text" \in DOMAIN data
  /\ data.text # <<>>
  /\ Trim(data.text) # <<>>
  /\ data.senderId = w.config.agentId

\* faulty variant: resolverWrapper without its clearTimeout
resolverWrapperKeepsTimer(w, c, message) ==
  Resolve(w, c, <<message>>)

\* resolverWrapper of call c (both flavours): clear the timer, resolve
resolverWrapper(w, c, message) ==
  Resolve([w EXCEPT !.calls[c].timer = FALSE], c, <<message>>)

\* faulty variant: pairs the newest resolver (pop) instead of the oldest
RECURSIVE DrainNewestFirst(_)
DrainNewestFirst(w) ==
  IF Len(w.resolvers) > 0 /\ Len(w.messageQueue) > 0
    THEN DrainNewestFirst(
           resolverWrapper([w EXCEPT
                              !.resolvers = SubSeq(@, 1, Len(@) - 1),
                              !.messageQueue = Tail(@)],
                           w.resolvers[Len(w.resolvers)], Head(w.messageQueue)))
  ELSE w

\* while (resolvers.length > 0 && messageQueue.length > 0) { shift both; call }
RECURSIVE Drain(_)
Drain(w) ==
  IF Len(w.resolvers) > 0 /\ Len(w.messageQueue) > 0
    THEN Drain(resolverWrapper([w EXCEPT !.resolvers = Tail(@),
                                          !.messageQueue = Tail(@)],
                               Head(w.resolvers), Head(w.messageQueue)))
  ELSE w

\* faulty variant: the listener loop without try/catch, so that the first
\* failing listener ends it
RECURSIVE tellListenersUncaught(_, _, _)
tellListenersUncaught(w, ls, data) ==
  IF ls = <<>> THEN w
  ELSE LET w1 == [w EXCEPT !.heard[Head(ls)] = Append(@, data.id)]
       IN IF <<"message", Head(ls)>> \in w.throwing THEN w1
          ELSE tellListenersUncaught(w1, Tail(ls), data)

\* for (const listener of this.messageListeners) listener(data)
RECURSIVE tellListeners(_, _, _)
tellListeners(w, ls, data) ==
  IF ls = <<>> THEN w
  ELSE tellListeners(
         caught([w EXCEPT !.heard[Head(ls)] = Append(@, data.id)],
                "message", Head(ls)),
         Tail(ls), data)

notifyMessageListeners(w, data) ==
  LET w1 == IF IsValidReply(w, data)
              THEN Drain([w EXCEPT !.messageQueue = Append(@, data),
                                   !.validIds = Append(@, data.id)])
            ELSE w
  IN tellListeners(w1, w1.messageListeners, data)

\* timeout || this.config.responseTimeout: the argument list is empty when
\* the call passes no timeout; undefined and 0 are falsy
waitTimeout(w, arg) ==
  IF arg = <<>> \/ arg[1] = 0 THEN w.config.responseTimeout ELSE arg[1]

\* faulty variant: waitForNextMessage resolving from the queue without
\* removing the entry it hands out
waitForNextMessageKeeps(w, c) ==
  IF Len(w.messageQueue) > 0
    THEN Resolve(w, c, <<Head(w.messageQueue)>>)
  ELSE [w EXCEPT !.resolvers = Append(@, c), !.calls[c].timer = TRUE,
                 !.calls[c].delay = waitTimeout(w, w.calls[c].arg),
                 !.calls[c].pc = "awaitReply"]

\* waitForNextMessage: the promise executor
waitForNextMessage(w, c) ==
  IF Len(w.messageQueue) > 0
    THEN Resolve([w EXCEPT !.messageQueue = Tail(@)], c,
                 <<Head(w.messageQueue)>>)
  ELSE [w EXCEPT !.resolvers = Append(@, c), !.calls[c].timer = TRUE,
                 !.calls[c].delay = waitTimeout(w, w.calls[c].arg),
                 !.calls[c].pc = "awaitReply"]

InResolvers(w, c) == \E i \in 1..Len(w.resolvers) : w.resolvers[i] = c

\* the setTimeout callback of waitForNextMessage
waitTimedOut(w, c) ==
  LET w1 == [w EXCEPT !.calls[c].timer = FALSE]
  IN IF InResolvers(w1, c)
       THEN Reject([w1 EXCEPT !.resolvers = Without(@, c)], c,
                   "responseTimeout")
     ELSE w1

\* faulty variant: the response timer rejects instead of resolving
responseTimedOutRejects(w, c) ==
  Reject([w EXCEPT !.calls[c].timer = FALSE, !.resolvers = Without(@, c)],
         c, "responseTimeout")

\* the setTimeout callback of sendMessageAndGetResponse
responseTimedOut(w, c) ==
  Resolve([w EXCEPT !.calls[c].timer = FALSE, !.resolvers = Without(@, c)],
          c, <<SoftError("responseTimeout", c)>>)

(* -------------------------- reconfiguration --------------------------- *)
\* faulty variant: the reset of switchAgent without `this.resolvers = []`
switchTailKeepsWaiters(w) ==
  [w EXCEPT !.roomJoined = FALSE, !.messageQueue = <<>>]

\* switchAgent after its disconnect and grace delay: replace agent and room,
\* reset the membership flag, the queue and the resolvers, reconnect
switchTail(w) ==
  [w EXCEPT !.roomJoined = FALSE, !.messageQueue = <<>>, !.resolvers = <<>>]

\* { ...this.config, ...newConfigPartial }
Merge(cfg, partial) ==
  [f \in DOMAIN cfg |-> IF f \in DOMAIN partial THEN partial[f] ELSE cfg[f]]

criticalChange(old, new) ==
  \/ old.agentId # new.agentId
  \/ old.roomId # new.roomId
  \/ old.serverUrl # new.serverUrl
  \/ old.userId # new.userId
  \/ old.worldId # new.worldId

AllPopulated(cfg) ==
  /\ cfg.agentId # "" /\ cfg.roomId # "" /\ cfg.serverUrl # ""
  /\ cfg.userId # "" /\ cfg.worldId # ""

(* ------------------------- the set_agent tool -------------------------- *)
\* the JSON results of the tool: the success report and the error object
SetAgentSuccess(old, agent_id, room_id) ==
  [success |-> TRUE, oldConfig |-> old,
   newConfig |-> [agentId |-> agent_id, roomId |-> room_id]]

ErrorObj(message) == [error |-> TRUE, message |-> message]

\* set_agent after `await elizaClient.setConfig(..)`; oldConfig was read
\* before the call and is kept in the call's arguments
setAgentTail(w, c) ==
  LET arg == w.calls[c].arg
  IN IF w.connectionState = CONNECTED
       THEN Resolve(w, c, <<SetAgentSuccess(arg[3], arg[1], arg[2])>>)
     ELSE Resolve(w, c, <<ErrorObj("failedToEstablish")>>)

\* setConfig returns: to the set_agent tool when it made the call
returnFromSetConfig(w, c) ==
  IF w.calls[c].op = "set_agent" THEN setAgentTail(w, c)
  ELSE Resolve(w, c, <<>>)

(* --------------------- awaiting a connect attempt --------------------- *)
\* faulty variant: sendMessage going on to emit although connect() failed
ContinueSendAnyway(w, c, res) ==
  LET op == w.calls[c].op
      wr == [w EXCEPT !.calls[c].pc = "run", !.calls[c].att = 0]
  IN CASE op = "connect" ->
            IF res = "true" THEN Resolve(wr, c, <<>>) ELSE Reject(wr, c, res)
       [] op = "sendMessage" ->
            IF wr.socket # 0 THEN Resolve(emitSend(wr, c), c, <<>>)
            ELSE Reject(wr, c, res)
       [] op = "sendMessageAndGetResponse" ->
            IF res # "true" THEN Reject(wr, c, res)
            ELSE IF ~SockConnected(wr, wr.socket)
              THEN Resolve(wr, c, <<SoftError("failedToConnect", 0)>>)
            ELSE sendAndAwaitTail(wr, c)
       [] op = "switchAgent" ->
            IF res = "true" THEN Resolve(wr, c, <<>>) ELSE Reject(wr, c, res)
       [] op \in {"setConfig", "set_agent"} -> returnFromSetConfig(wr, c)

\* what call c does once the connect() it awaits has settled with res
\* ("true", or the name of the error it threw or was rejected with)
Continue(w, c, res) ==
  LET op == w.calls[c].op
      wr == [w EXCEPT !.calls[c].pc = "run", !.calls[c].att = 0]
  IN CASE op = "connect" ->
            IF res = "true" THEN Resolve(wr, c, <<>>) ELSE Reject(wr, c, res)
       [] op = "sendMessage" ->
            IF res = "true" THEN sendTail(wr, c) ELSE Reject(wr, c, res)
       [] op = "sendMessageAndGetResponse" ->
            IF res # "true" THEN Reject(wr, c, res)
            ELSE IF ~SockConnected(wr, wr.socket)
              THEN Resolve(wr, c, <<SoftError("failedToConnect", 0)>>)
            ELSE sendAndAwaitTail(wr, c)
       [] op = "switchAgent" ->
            IF res = "true" THEN Resolve(wr, c, <<>>) ELSE Reject(wr, c, res)
       [] op \in {"setConfig", "set_agent"} -> returnFromSetConfig(wr, c)

\* `await this.connect()` in call c, r being what connect(w) returned
AwaitConnect(c, r) ==
  IF r.res = "pending"
    THEN [r.w EXCEPT !.calls[c].pc = "awaitConnect", !.calls[c].att = r.att]
  ELSE Continue(r.w, c, r.res)

\* resolve(true) / reject(error) of the promise of connect attempt s, and
\* the continuation of the call that awaits it
settleConnect(w, s, res) ==
  IF w.socks[s].promise # "pending" THEN w
  ELSE LET w1 == [w EXCEPT !.socks[s].promise =
                     IF res = "true" THEN "resolved" ELSE "rejected"]
           waiting == {c \in DOMAIN w1.calls :
                         w1.calls[c].pc = "awaitConnect" /\ w1.calls[c].att = s}
       IN IF waiting = {} THEN w1
          ELSE Continue(w1, CHOOSE c \in waiting : TRUE, res)

(* ------------------------- transport handlers ------------------------- *)
\* faulty variant: the 'connect' handler without its joinRoom() call
onConnectNoJoin(w, s) ==
  LET w1 == [w EXCEPT !.socks[s].status = "connected", !.socks[s].timer = FALSE,
                      !.socks[s].joins = <<>>]
  IN settleConnect(updateState(w1, CONNECTED), s, "true")

\* socket.on('connect')
onConnect(w, s) ==
  LET w1 == [w EXCEPT !.socks[s].status = "connected", !.socks[s].timer = FALSE,
                      !.socks[s].joins = <<>>]
  IN settleConnect(joinRoom(updateState(w1, CONNECTED)), s, "true")

\* the connectionTimeoutId callback
onConnectionTimeout(w, s) ==
  LET w1 == [w EXCEPT !.socks[s].timer = FALSE]
  IN IF w1.connectionState # CONNECTED
       THEN settleConnect(handleError(w1, "connectTimeout"), s, "connectTimeout")
     ELSE w1

\* socket.on('reconnect_failed'): the transport has given up
onReconnectFailed(w, s) ==
  settleConnect(handleError([w EXCEPT !.socks[s].status = "closed"],
                            "reconnectFailed"),
                s, "reconnectFailed")

\* socket.on('disconnect') after a connection loss; the transport then
\* starts reconnecting on its own
onDisconnect(w, s) ==
  LET w1 == [w EXCEPT !.socks[s].status = "opening", !.socks[s].joins = <<>>,
                      !.nDrops = @ + 1]
  IN [updateState(w1, DISCONNECTED) EXCEPT !.roomJoined = FALSE]

\* socket.on('messageBroadcast')
onMessageBroadcast(w, data) ==
  notifyMessageListeners([w EXCEPT !.nIn = @ + 1], data)

(* ----------------------------- public API ----------------------------- *)
switchAgent(w, c) ==
  LET a == w.calls[c].arg[1]
      r == w.calls[c].arg[2]
      w1 == [switchTail(w) EXCEPT !.config.agentId = a, !.config.roomId = r]
  IN AwaitConnect(c, connect(w1))

\* setConfig up to its reconnect decision: merge, then disconnect on a
\* critical change unless the state is DISCONNECTED
setConfigHead(w, partial) ==
  LET old == w.config
      w1 == [w EXCEPT !.config = Merge(old, partial)]
  IN IF criticalChange(old, w1.config) /\ w1.connectionState # DISCONNECTED
       THEN disconnect(w1)
     ELSE w1

setConfig(w, c, partial) ==
  LET old == w.config
      w2 == setConfigHead(w, partial)
      crit == criticalChange(old, w2.config)
  IN IF \/ w2.connectionState = DISCONNECTED
        \/ (crit /\ w2.connectionState # CONNECTING)
       THEN IF AllPopulated(w2.config) THEN AwaitConnect(c, connect(w2))
            ELSE returnFromSetConfig(updateState(w2, DISCONNECTED), c)
     ELSE returnFromSetConfig(w2, c)

(* ------------------------------ actions ------------------------------- *)
\* a new public call: its promise is the next entry of calls
Begin(op, arg) == [W EXCEPT !.calls = Append(@, NewCall(op, arg, nIn))]
NextCall == Len(calls) + 1
CanCall == Len(calls) < MaxCalls

Step(w) == Len(w.socks) <= MaxSockets /\ Commit(w)

CallConnect ==
  /\ Step(AwaitConnect(NextCall, connect(Begin("connect", <<>>))))

CallDisconnect ==
  /\ socket # 0
  /\ Step(disconnect(W))

CallSendMessage(text) ==
  /\ LET w0 == Begin("sendMessage", <<text>>)
     IN Step(IF ~SockConnected(w0, w0.socket)
               THEN AwaitConnect(NextCall, connect(w0))
             ELSE sendTail(w0, NextCall))

CallSendMessageAndGetResponse(text) ==
  /\ LET w0 == Begin("sendMessageAndGetResponse", <<text>>)
     IN Step(IF ~SockConnected(w0, w0.socket)
               THEN AwaitConnect(NextCall, connect(w0))
             ELSE sendAndAwaitTail(w0, NextCall))

\* waitForNextMessage(timeout): arg is <<timeout>>, or <<>> without argument
CallWaitForNextMessageWith(arg) ==
  /\ Step(waitForNextMessage(Begin("waitForNextMessage", arg), NextCall))

CallWaitForNextMessage == CallWaitForNextMessageWith(<<>>)

\* faulty variant: switchAgent without its newAgentId !== newRoomId test
CallSwitchAgentUnchecked(newAgentId, newRoomId) ==
  LET w0 == Begin("switchAgent", <<newAgentId, newRoomId>>)
  IN Step(IF SockConnected(w0, w0.socket)
            THEN [disconnect(w0) EXCEPT !.calls[NextCall].pc = "awaitDelay"]
          ELSE switchAgent(w0, NextCall))

CallSwitchAgent(newAgentId, newRoomId) ==
  /\ LET w0 == Begin("switchAgent", <<newAgentId, newRoomId>>)
     IN Step(IF newAgentId # newRoomId
               THEN Reject(w0, NextCall, "switchMismatch")
             ELSE IF SockConnected(w0, w0.socket)
               THEN [disconnect(w0) EXCEPT !.calls[NextCall].pc = "awaitDelay"]
             ELSE switchAgent(w0, NextCall))

\* the 250 ms grace delay of switchAgent has elapsed
SwitchDelayElapsed(c) ==
  /\ calls[c].pc = "awaitDelay"
  /\ Step(switchAgent([W EXCEPT !.calls[c].pc = "run"], c))

Partials ==
  {[agentId |-> a, roomId |-> r] : a \in IdOrEmpty, r \in IdOrEmpty}
    \cup {[agentId |-> a] : a \in Ids}
    \cup {[userId |-> u] : u \in {"", "u"}}

CallSetConfig(partial) ==
  /\ Step(setConfig(Begin("setConfig", <<>>), NextCall, partial))

\* faulty variant: the set_agent tool without its parameter checks
CallSetAgentUnchecked(agent_id, room_id) ==
  LET old == [agentId |-> config.agentId, roomId |-> config.roomId]
      w0 == Begin("set_agent", <<agent_id, room_id, old>>)
  IN Step(setConfig(w0, NextCall, [agentId |-> agent_id, roomId |-> room_id]))

\* the set_agent tool of the MCP server
CallSetAgent(agent_id, room_id) ==
  /\ LET old == [agentId |-> config.agentId, roomId |-> config.roomId]
         w0 == Begin("set_agent", <<agent_id, room_id, old>>)
     IN Step(IF agent_id = "" \/ room_id = ""
               THEN Resolve(w0, NextCall, <<ErrorObj("required")>>)
             ELSE IF agent_id # room_id
               THEN Resolve(w0, NextCall, <<ErrorObj("mustBeIdentical")>>)
             ELSE setConfig(w0, NextCall,
                            [agentId |-> agent_id, roomId |-> room_id]))

\* the observer being registered gets the next number of its kind; throws
\* tells whether its callback fails when called
Register(w, kind, l, throws) ==
  IF throws THEN [w EXCEPT !.throwing = @ \cup {<<kind, l>>}] ELSE w

CallOnMessage(throws) ==
  /\ Len(messageListeners) + 1 \in ListenerIds
  /\ Step(Register([W EXCEPT !.messageListeners = Append(@, Len(@) + 1)],
                   "message", Len(messageListeners) + 1, throws))

CallOnStateChange(throws) ==
  /\ Len(stateChangeListeners) + 1 \in ListenerIds
  /\ Step(Register([W EXCEPT !.stateChangeListeners = Append(@, Len(@) + 1)],
                   "stateChange", Len(stateChangeListeners) + 1, throws))

CallOnError(throws) ==
  /\ Len(errorListeners) + 1 \in ListenerIds
  /\ Step(Register([W EXCEPT !.errorListeners = Append(@, Len(@) + 1)],
                   "error", Len(errorListeners) + 1, throws))

SockConnect(s) ==
  /\ socks[s].status = "opening"
  /\ Step(onConnect(W, s))

ConnectionTimeout(s) ==
  /\ socks[s].timer
  /\ Step(onConnectionTimeout(W, s))

ReconnectFailed(s) ==
  /\ socks[s].status = "opening"
  /\ Step(onReconnectFailed(W, s))

SockDisconnect(s) ==
  /\ socks[s].status = "connected"
  /\ nDrops < MaxDrops
  /\ Step(onDisconnect(W, s))

\* the envelopes the remote side may broadcast
Envelopes(id) ==
  {[id |-> id, senderId |-> a] : a \in Ids}
    \cup {[id |-> id, senderId |-> a, text |-> t] : a \in Ids, t \in Texts}

MessageBroadcast(s, data) ==
  /\ socks[s].status = "connected"
  /\ nIn < MaxIn
  /\ Step(onMessageBroadcast(W, data))

WaitTimeout(c) ==
  /\ calls[c].op = "waitForNextMessage"
  /\ calls[c].timer
  /\ Step(waitTimedOut(W, c))

ResponseTimeout(c) ==
  /\ calls[c].op = "sendMessageAndGetResponse"
  /\ calls[c].timer
  /\ Step(responseTimedOut(W, c))

(* --------------------------- specifications -------------------------- *)
\* transport events of the connect attempts
TransportEvent ==
  \/ \E s \in DOMAIN socks : SockConnect(s)
  \/ \E s \in DOMAIN socks : ConnectionTimeout(s)
  \/ \E s \in DOMAIN socks : ReconnectFailed(s)
  \/ \E s \in DOMAIN socks : SockDisconnect(s)

Broadcast ==
  \E s \in DOMAIN socks : \E data \in Envelopes(nIn + 1) :
    MessageBroadcast(s, data)

ResponseTimer ==
  \/ \E c \in DOMAIN calls : WaitTimeout(c)
  \/ \E c \in DOMAIN calls : ResponseTimeout(c)

\* correlation: one transport session, waiters, replies and response timers
NextCorr ==
  \/ CanCall /\ socket = 0 /\ CallConnect
  \/ CanCall /\ CallWaitForNextMessage
  \/ /\ CanCall
     /\ socket = 0 \/ SockConnected(W, socket)
     /\ CallSendMessageAndGetResponse("hi")
  \/ /\ Len(messageListeners) < MaxListeners
     /\ CallOnMessage(FALSE)
  \/ \E s \in DOMAIN socks : SockConnect(s)
  \/ Broadcast
  \/ ResponseTimer

SpecCorr == Init /\ [][NextCorr]_vars

\* lifecycle: connect, disconnect, send and reconfiguration against the
\* transport's events
NextLife ==
  \/ CanCall /\ CallConnect
  \/ CallDisconnect
  \/ CanCall /\ CallSendMessage("hi")
  \/ CanCall /\ \E partial \in Partials : CallSetConfig(partial)
  \/ TransportEvent

SpecLife == Init /\ [][NextLife]_vars

\* reconfiguration while waiters and replies are around
ReconfPartials == {[agentId |-> "B", roomId |-> "B"], [userId |-> ""]}
CanReconf == Len(calls) < MaxReconfCalls

WaitTimer == \E c \in DOMAIN calls : WaitTimeout(c)
SwitchDelay == \E c \in DOMAIN calls : SwitchDelayElapsed(c)

NextReconf ==
  \/ CanReconf /\ CallConnect
  \/ CanReconf /\ CallWaitForNextMessage
  \/ CanReconf /\ \E a \in IdOrEmpty, r \in IdOrEmpty : CallSwitchAgent(a, r)
  \/ SwitchDelay
  \/ CanReconf /\ \E partial \in ReconfPartials : CallSetConfig(partial)
  \/ CallDisconnect
  \/ TransportEvent
  \/ nIn < MaxReconfIn /\ Broadcast
  \/ WaitTimer

SpecReconf == Init /\ [][NextReconf]_vars

\* timers always fire: a setTimeout callback that is due is eventually run
FairReconf == SpecReconf /\ WF_vars(WaitTimer)

\* observers: the three kinds of observers, some of them failing, registered
\* before the client is first used, against state changes, errors and
\* broadcasts
ObsPartials == {[agentId |-> "B", roomId |-> "B"], [userId |-> ""]}
CanObs == Len(calls) < MaxObsCalls

CanObserve ==
  Len(messageListeners) + Len(stateChangeListeners) + Len(errorListeners)
    < MaxObservers

Observe ==
  \E throws \in BOOLEAN :
    \/ CallOnMessage(throws)
    \/ CallOnStateChange(throws)
    \/ CallOnError(throws)

NextObs ==
  \/ calls = <<>> /\ CanObserve /\ Observe
  \/ CanObs /\ CallConnect
  \/ CanObs /\ CallWaitForNextMessage
  \/ CanObs /\ \E partial \in ObsPartials : CallSetConfig(partial)
  \/ CallDisconnect
  \/ TransportEvent
  \/ nIn < MaxReconfIn /\ Broadcast

SpecObs == Init /\ [][NextObs]_vars

\* sending: both send operations with connect, disconnect and a
\* reconfiguration, against transport events, replies and response timers
SendPartials == {[agentId |-> "B", roomId |-> "B"]}
CanSend == Len(calls) < MaxSendCalls

NextSend ==
  \/ CanSend /\ CallConnect
  \/ CanSend /\ CallSendMessage("hi")
  \/ CanSend /\ CallSendMessageAndGetResponse("hi")
  \/ CanSend /\ \E partial \in SendPartials : CallSetConfig(partial)
  \/ CallDisconnect
  \/ TransportEvent
  \/ nIn < MaxReconfIn /\ Broadcast
  \/ \E c \in DOMAIN calls : ResponseTimeout(c)

SpecSend == Init /\ [][NextSend]_vars

\* request/response calls against a target switch, transport events, replies
\* and response timers
CanAwait == Len(calls) < MaxAwaitCalls

NextAwait ==
  \/ CanAwait /\ CallConnect
  \/ CanAwait /\ CallSendMessageAndGetResponse("hi")
  \/ CanAwait /\ CallSwitchAgent("B", "B")
  \/ SwitchDelay
  \/ TransportEvent
  \/ nIn < MaxReconfIn /\ Broadcast
  \/ \E c \in DOMAIN calls : ResponseTimeout(c)

SpecAwait == Init /\ [][NextAwait]_vars

\* timeouts: waitForNextMessage with and without a timeout argument and
\* setConfig calls that change the timeouts only, in every session state
WaitArgs == {<<>>, <<0>>, <<5>>}
TimePartials == {[responseTimeout |-> 7], [connectionTimeout |-> 7]}
CanTime == Len(calls) < MaxTimeCalls

NextTime ==
  \/ CanTime /\ CallConnect
  \/ CanTime /\ \E arg \in WaitArgs : CallWaitForNextMessageWith(arg)
  \/ CanTime /\ \E partial \in TimePartials : CallSetConfig(partial)
  \/ CallDisconnect
  \/ TransportEvent
  \/ nIn < MaxReconfIn /\ Broadcast
  \/ WaitTimer

SpecTime == Init /\ [][NextTime]_vars

\* the MCP server: the initial connect of main() and set_agent tool calls
\* against the transport's events
CanTool == Len(calls) < MaxToolCalls

NextTool ==
  \/ CanTool /\ CallConnect
  \/ CanTool /\ \E a \in IdOrEmpty, r \in IdOrEmpty : CallSetAgent(a, r)
  \/ TransportEvent

SpecTool == Init /\ [][NextTool]_vars

Next ==
  \/ CanCall /\ CallConnect
  \/ CallDisconnect
  \/ CanCall /\ \E text \in OutTexts : CallSendMessage(text)
  \/ CanCall /\ \E text \in OutTexts : CallSendMessageAndGetResponse(text)
  \/ CanCall /\ CallWaitForNextMessage
  \/ CanCall /\ \E a \in IdOrEmpty, r \in IdOrEmpty : CallSwitchAgent(a, r)
  \/ SwitchDelay
  \/ CanCall /\ \E partial \in Partials : CallSetConfig(partial)
  \/ CanCall /\ \E a \in IdOrEmpty, r \in IdOrEmpty : CallSetAgent(a, r)
  \/ CanObserve /\ Observe
  \/ TransportEvent
  \/ Broadcast
  \/ ResponseTimer

Spec == Init /\ [][Next]_vars

(* ------------------------ vocabulary of the claims -------------------- *)
WaitCalls == {c \in DOMAIN calls : calls[c].op = "waitForNextMessage"}
AwaitCalls == {c \in DOMAIN calls : calls[c].op = "sendMessageAndGetResponse"}

\* the call was resolved with a reply envelope (not a synthetic error result)
GotReply(c) ==
  /\ calls[c].settled = "resolved"
  /\ calls[c].result # <<>>
  /\ "id" \in DOMAIN calls[c].result[1]

\* the call was settled by its response timer
TimedOut(call) ==
  \/ /\ call.op = "waitForNextMessage"
     /\ call.settled = "rejected"
     /\ call.error = "responseTimeout"
  \/ /\ call.op = "sendMessageAndGetResponse"
     /\ call.settled = "resolved"
     /\ call.result # <<>>
     /\ "error" \in DOMAIN call.result[1]
     /\ call.result[1].error = "responseTimeout"

\* the reply filter as the specification words it
ForeignOrBlank(data) ==
  \/ data.senderId # config.agentId
  \/ "text" \notin DOMAIN data
  \/ \A i \in 1..Len(data.text) : data.text[i] = " "

Ran(seq) == {seq[i] : i \in 1..Len(seq)}

\* the i-th element of a set of call numbers, in call order
RECURSIVE Sorted(_)
Sorted(S) ==
  IF S = {} THEN <<>>
  ELSE LET m == CHOOSE x \in S : \A y \in S : x <= y
       IN <<m>> \o Sorted(S \ {m})

\* the JOIN envelopes emitted so far
Joins == {i \in DOMAIN out : out[i].type = ROOM_JOINING}

\* a step that makes a public call / delivers a broadcast (these follow from
\* the actions named after them and only spare evaluating those on every step)
IsNewCall == Len(calls') = Len(calls) + 1
IsArrival == nIn' = nIn + 1

\* only connect and waitForNextMessage were called, and no timer has fired
OnlyWaiters ==
  /\ \A c \in DOMAIN calls : calls[c].op \in {"connect", "waitForNextMessage"}
  /\ \A c \in DOMAIN calls : ~TimedOut(calls[c])

(* C1: FIFO correlation.  As long as only connect and waitForNext calls    *)
(* have been made and no response timer has fired, the k-th waitForNext    *)
(* call is resolved with the k-th valid reply, and is resolved as soon as  *)
(* that reply has arrived.                                                 *)
C1_FifoCorrelation ==
  OnlyWaiters =>
    LET ws == Sorted(WaitCalls)
    IN \A k \in 1..Len(ws) :
         /\ k <= Len(validIds) => /\ GotReply(ws[k])
                                  /\ calls[ws[k]].result[1].id = validIds[k]
         /\ k > Len(validIds) => calls[ws[k]].settled = "pending"

\* W1 before any reply, W2 between R1 and R2, W3 between R2 and R3, all paired
C1_Witness ==
  /\ OnlyWaiters
  /\ Cardinality(WaitCalls) = 3
  /\ Len(validIds) = 3
  /\ \A c \in WaitCalls : GotReply(c)
  /\ LET ws == Sorted(WaitCalls)
     IN /\ calls[ws[1]].at = 0
        /\ calls[ws[2]].at >= validIds[1] /\ calls[ws[2]].at < validIds[2]
        /\ calls[ws[3]].at >= validIds[2] /\ calls[ws[3]].at < validIds[3]

(* C2: filtering.  A broadcast whose sender is not the configured agent,  *)
(* or whose text is missing, empty or blank, changes neither the queue    *)
(* nor the resolvers, settles no call, and is passed to every registered  *)
(* message listener.                                                      *)
C2_Filtering ==
  [][\A s \in DOMAIN socks : \A data \in Envelopes(nIn + 1) :
       (IsArrival /\ ForeignOrBlank(data) /\ MessageBroadcast(s, data)) =>
         /\ messageQueue' = messageQueue
         /\ resolvers' = resolvers
         /\ calls' = calls
         /\ \A i \in 1..Len(messageListeners) :
              heard'[messageListeners[i]] =
                Append(heard[messageListeners[i]], data.id)]_vars

\* a listener heard a filtered envelope that arrived while a waiter waited
C2_Witness ==
  \E c \in DOMAIN calls : \E l \in Ran(messageListeners) :
    /\ InResolvers(W, c)
    /\ \E id \in Ran(heard[l]) : id > calls[c].at /\ id \notin Ran(validIds)

(* C3: a sendMessageAndGetResponse call is resolved only with a reply     *)
(* that arrived after the call was made.                                  *)
C3_OnlyLaterReplies ==
  \A c \in AwaitCalls : GotReply(c) => calls[c].result[1].id > calls[c].at

(* C8: timeout cleanup.  A response timer that fires for a registered     *)
(* waiter removes it and settles its call with the timeout outcome; a     *)
(* timed-out call is never settled again; and a valid reply that arrives  *)
(* after a timeout goes to the oldest remaining waiter or, if there is    *)
(* none, to the end of the queue.                                         *)
C8_TimeoutCleanup ==
  [][/\ \A c \in DOMAIN calls :
          ( /\ calls[c].timer /\ InResolvers(W, c)
            /\ WaitTimeout(c) \/ ResponseTimeout(c) ) =>
            /\ c \notin Ran(resolvers')
            /\ TimedOut(calls'[c])
     /\ \A c \in DOMAIN calls : TimedOut(calls[c]) => calls'[c] = calls[c]
     /\ \A s \in DOMAIN socks : \A data \in Envelopes(nIn + 1) :
          ( /\ IsArrival
            /\ ~ForeignOrBlank(data)
            /\ \E c \in DOMAIN calls : TimedOut(calls[c])
            /\ MessageBroadcast(s, data) ) =>
            IF resolvers # <<>>
              THEN /\ calls'[Head(resolvers)].settled = "resolved"
                   /\ calls'[Head(resolvers)].result = <<data>>
            ELSE messageQueue' = Append(messageQueue, data)]_vars

(* C9: a response timeout never rejects sendMessageAndGetResponse: the    *)
(* timer resolves the call with a result whose error is set, whose status *)
(* is error and which has no text, and leaves the call out of resolvers.  *)
C9_SoftTimeout ==
  [][/\ \A c \in DOMAIN calls :
          (calls[c].timer /\ ResponseTimeout(c)) =>
            /\ calls'[c].settled = "resolved"
            /\ calls'[c].result # <<>>
            /\ LET r == calls'[c].result[1]
               IN /\ "error" \in DOMAIN r
                  /\ r.error # ""
                  /\ r.status = "error"
                  /\ "text" \notin DOMAIN r
            /\ c \notin Ran(resolvers')
     /\ \A c \in DOMAIN calls' :
          ( /\ calls'[c].op = "sendMessageAndGetResponse"
            /\ calls'[c].settled = "rejected" ) =>
            calls'[c].error # "responseTimeout"]_vars

\* a sendMessageAndGetResponse call timed out and left the resolvers
C9_Witness ==
  \E c \in AwaitCalls : TimedOut(calls[c]) /\ ~InResolvers(W, c)

\* the configuration connect() is documented to refuse
BadConfig ==
  config.agentId = "" \/ config.roomId = "" \/ config.agentId # config.roomId

(* C4: connect() called while agent id or room id is empty, or while they *)
(* differ, is rejected with a configuration error, opens no transport and *)
(* leaves the connection state unchanged, whatever the session state.     *)
C4_ConnectRejectsBadConfig ==
  [][(IsNewCall /\ BadConfig /\ CallConnect) =>
       /\ calls'[NextCall].settled = "rejected"
       /\ calls'[NextCall].error \in {"configNotSet", "configMismatch"}
       /\ socks' = socks
       /\ connectionState' = connectionState]_vars

(* C5: switchAgent with newAgentId # newRoomId is rejected and changes    *)
(* nothing: no transport is closed, and the configuration, the membership *)
(* flag, the queue and the resolvers are as before.                       *)
C5_SwitchMismatchNoEffect ==
  [][\A a \in IdOrEmpty, r \in IdOrEmpty :
       (IsNewCall /\ a # r /\ CallSwitchAgent(a, r)) =>
         /\ calls'[NextCall].settled = "rejected"
         /\ \A c \in DOMAIN calls : calls'[c] = calls[c]
         /\ UNCHANGED <<config, connectionState, roomJoined, socket,
                        messageQueue, resolvers, socks, out>>]_vars

\* a mismatched switchAgent was rejected in a joined session with a waiter
C5_Witness ==
  /\ \E c \in DOMAIN calls :
       calls[c].op = "switchAgent" /\ calls[c].error = "switchMismatch"
  /\ SockConnected(W, socket)
  /\ roomJoined
  /\ resolvers # <<>>

C7_SingleTransport ==
  Cardinality({s \in DOMAIN socks : socks[s].status # "closed"}) <= 1

(* C10: every waitForNextMessage call eventually settles, whatever else   *)
(* happens while it is pending.                                           *)
C10_EveryWaitSettles ==
  \A c \in 1..MaxReconfCalls :
    [](c \in WaitCalls => <>(c \in DOMAIN calls /\ calls[c].settled # "pending"))

\* call c is a switchAgent call that has passed its reset (lines 512-516)
SwitchedPast(c) ==
  /\ calls[c].op = "switchAgent"
  /\ calls[c].pc \in {"awaitConnect", "done"}
  /\ calls[c].error # "switchMismatch"

(* C11: reconfiguration reset.  In the step in which a switchAgent call    *)
(* with equal arguments gets past its disconnect and delay and calls       *)
(* connect(), the queue and the resolvers are empty and the membership     *)
(* flag is false when connect() has begun.                                 *)
C11_SwitchReset ==
  [][/\ \A c \in DOMAIN calls :
          (calls[c].pc = "awaitDelay" /\ SwitchDelayElapsed(c)) =>
            messageQueue' = <<>> /\ resolvers' = <<>> /\ roomJoined' = FALSE
     /\ \A a \in IdOrEmpty :
          ( /\ IsNewCall
            /\ ~SockConnected(W, socket)
            /\ CallSwitchAgent(a, a) ) =>
            messageQueue' = <<>> /\ resolvers' = <<>> /\ roomJoined' = FALSE]_vars

\* switchAgent(A, A) then switchAgent(B, B), both past their reset, with a
\* waiter registered before them and the first session joined, then closed
C11_Witness ==
  \E c1 \in DOMAIN calls, c2 \in DOMAIN calls, c0 \in WaitCalls :
    /\ c0 < c1 /\ c1 < c2
    /\ calls[c0].settled = "pending"
    /\ SwitchedPast(c1) /\ calls[c1].arg = <<"A", "A">>
    /\ SwitchedPast(c2) /\ calls[c2].arg = <<"B", "B">>
    /\ config.agentId = "B" /\ config.roomId = "B"
    /\ resolvers = <<>> /\ messageQueue = <<>>
    /\ Joins # {} /\ socks[1].status = "closed" /\ nDrops = 0

\* a behaviour that so far is one connect() call with agent = room set, its
\* transport neither timed out, failed, dropped nor closed
ConnectRun ==
  /\ Len(calls) <= 1
  /\ calls # <<>> => calls[1].op = "connect"
  /\ config.agentId # "" /\ config.agentId = config.roomId
  /\ Len(socks) <= 1
  /\ nDrops = 0
  /\ socks # <<>> => socks[1].status # "closed" /\ socks[1].promise # "rejected"

\* the JOIN envelope for room x listing agent x
JoinOf(x) ==
  [sock |-> 1, type |-> ROOM_JOINING,
   payload |-> [roomId |-> x, agentIds |-> <<x>>]]

(* C12: a connect() from DISCONNECTED with agent = room = X that meets a   *)
(* transport connect event changes the connection state exactly twice,     *)
(* DISCONNECTED to CONNECTING at the call and CONNECTING to CONNECTED at   *)
(* the event, then has emitted exactly one JOIN envelope for room X        *)
(* listing [X], and has resolved its caller.                               *)
C12_ConnectSequence ==
  [][(ConnectRun /\ ConnectRun') =>
       /\ connectionState' # connectionState =>
            \/ /\ connectionState = DISCONNECTED
               /\ connectionState' = CONNECTING
               /\ IsNewCall
            \/ /\ connectionState = CONNECTING
               /\ connectionState' = CONNECTED
               /\ socks[1].status = "opening"
               /\ socks'[1].status = "connected"
       /\ calls' = <<>> => connectionState' = DISCONNECTED /\ out' = <<>>
       /\ (socks' # <<>> /\ socks'[1].status = "opening") =>
            /\ connectionState' = CONNECTING
            /\ out' = <<>>
            /\ calls'[1].settled = "pending"
       /\ (socks' # <<>> /\ socks'[1].status = "connected") =>
            /\ connectionState' = CONNECTED
            /\ out' = <<JoinOf(config.agentId)>>
            /\ calls'[1].settled = "resolved"]_vars

\* the connect() call met its connect event
C12_Witness ==
  /\ ConnectRun
  /\ socks # <<>> /\ socks[1].status = "connected"
  /\ connectionState = CONNECTED
  /\ calls[1].settled = "resolved"

\* the SEND envelopes of call c among the emitted envelopes o
SendsOf(c, o) ==
  {i \in DOMAIN o : o[i].type = SEND_MESSAGE /\ o[i].payload.messageId = c}

SendCalls == {c \in DOMAIN calls : calls[c].op = "sendMessage"}

(* C13: sendMessage(text) called while the transport is not connected      *)
(* calls connect() and emits nothing yet; when that connect attempt        *)
(* succeeds, the call emits one SEND envelope with the text, the           *)
(* configured user id as sender and the configured room, agent and world   *)
(* ids, and resolves in the same step (it waits for no reply); no call     *)
(* ever has more than one SEND envelope.                                   *)
C13_SendAfterConnect ==
  [][/\ ( /\ IsNewCall
          /\ ~SockConnected(W, socket)
          /\ CallSendMessage("hi") ) =>
            /\ SendsOf(NextCall, out') = {}
            /\ \/ /\ calls'[NextCall].pc = "awaitConnect"
                  /\ calls'[NextCall].att = Len(socks) + 1
                  /\ Len(socks') = Len(socks) + 1
               \/ /\ calls'[NextCall].settled = "rejected"
                  /\ calls'[NextCall].error \in {"configNotSet", "configMismatch"}
     /\ \A c \in SendCalls :
          ( /\ calls[c].pc = "awaitConnect"
            /\ socks[calls[c].att].promise = "pending"
            /\ socks'[calls[c].att].promise = "resolved" ) =>
            /\ Cardinality(SendsOf(c, out')) = 1
            /\ out'[Len(out')].payload =
                 [senderId |-> config.userId, senderName |-> "mcp-user",
                  message |-> calls[c].arg[1], roomId |-> config.roomId,
                  agentId |-> config.agentId, worldId |-> config.worldId,
                  messageId |-> c, source |-> "mcp_client_chat"]
            /\ calls'[c].settled = "resolved"
     /\ \A c \in DOMAIN calls' :
          /\ Cardinality(SendsOf(c, out')) <= 1
          /\ SendsOf(c, out') # {} =>
               calls'[c].op = "sendMessage" /\ calls'[c].settled = "resolved"]_vars

\* a single sendMessage call from a disconnected client: implicit connect,
\* JOIN, then its SEND envelope
C13_Witness ==
  /\ Len(calls) = 1
  /\ calls[1].op = "sendMessage"
  /\ calls[1].settled = "resolved"
  /\ Len(out) = 2
  /\ out[1].type = ROOM_JOINING
  /\ out[2].type = SEND_MESSAGE /\ out[2].payload.message = "hi"

\* the errors connect() fails with
ConfigErrors == {"configNotSet", "configMismatch"}
AttemptErrors == {"connectTimeout", "reconnectFailed"}

(* C14: when the connect() that sendMessage performs fails, with a         *)
(* configuration error at the call or with a connect timeout or exhausted  *)
(* reconnection later, the sendMessage call is rejected with that error    *)
(* and no SEND envelope is ever emitted for it.                            *)
C14_SendPropagatesFailure ==
  [][/\ ( /\ IsNewCall
          /\ ~SockConnected(W, socket)
          /\ BadConfig
          /\ CallSendMessage("hi") ) =>
            /\ calls'[NextCall].settled = "rejected"
            /\ calls'[NextCall].error \in ConfigErrors
            /\ out' = out
     /\ \A c \in SendCalls :
          ( /\ calls[c].pc = "awaitConnect"
            /\ socks[calls[c].att].promise = "pending"
            /\ socks'[calls[c].att].promise = "rejected" ) =>
            /\ calls'[c].settled = "rejected"
            /\ calls'[c].error \in AttemptErrors
            /\ out' = out
     /\ \A c \in SendCalls :
          calls[c].settled = "rejected" =>
            calls'[c] = calls[c] /\ SendsOf(c, out') = {}]_vars

\* sendMessage calls rejected with each kind of connect() failure
C14_Witness ==
  /\ \E c \in SendCalls : calls[c].error \in ConfigErrors
  /\ \E c \in SendCalls : calls[c].error = "connectTimeout"
  /\ \E c \in SendCalls : calls[c].error = "reconnectFailed"
  /\ \A c \in SendCalls : calls[c].settled = "rejected"
  /\ \A i \in DOMAIN out : out[i].type # SEND_MESSAGE

\* the transports that are open or being opened
LiveSocks == {s \in DOMAIN socks : socks[s].status # "closed"}

\* the connect() call that made connect attempt s, while it awaits it
Awaiting(s) ==
  {c \in DOMAIN calls : /\ calls[c].op = "connect"
                        /\ calls[c].pc = "awaitConnect"
                        /\ calls[c].att = s}

(* C15: when the connect timeout of an attempt that has seen no connect    *)
(* event elapses, or the attempt gets reconnect_failed, the attempt's      *)
(* promise is rejected, so is the connect() call that made it, and the    *)
(* connection state is ERROR.                                              *)
C15_FailedAttemptRejects ==
  [][\A s \in DOMAIN socks :
       /\ ( /\ socks[s].timer
            /\ socks[s].promise = "pending"
            /\ ConnectionTimeout(s) ) =>
            /\ socks'[s].promise = "rejected"
            /\ connectionState' = ERROR
            /\ \A c \in Awaiting(s) : calls'[c].settled = "rejected"
       /\ ( /\ socks[s].status = "opening"
            /\ socks[s].promise = "pending"
            /\ ReconnectFailed(s) ) =>
            /\ socks'[s].promise = "rejected"
            /\ connectionState' = ERROR
            /\ \A c \in Awaiting(s) : calls'[c].settled = "rejected"]_vars

\* a JOIN envelope was emitted on transport s
JoinedOn(s, o) == \E i \in DOMAIN o : o[i].type = ROOM_JOINING /\ o[i].sock = s

(* C16: ERROR is not terminal.  A connect() call made in state ERROR with  *)
(* a valid configuration opens a transport, moves the state to CONNECTING  *)
(* and stays pending on that attempt; when that transport, still the      *)
(* current one and the configuration still valid, then connects, the       *)
(* state is CONNECTED, a JOIN envelope has been emitted on it and the call *)
(* is resolved.                                                            *)
C16_ErrorNotTerminal ==
  [][/\ ( /\ IsNewCall
          /\ connectionState = ERROR
          /\ ~BadConfig
          /\ CallConnect ) =>
            /\ connectionState' = CONNECTING
            /\ Len(socks') = Len(socks) + 1
            /\ socket' = Len(socks')
            /\ calls'[NextCall].pc = "awaitConnect"
            /\ calls'[NextCall].att = socket'
     /\ \A c \in DOMAIN calls :
          ( /\ calls[c].op = "connect"
            /\ calls[c].pc = "awaitConnect"
            /\ calls[c].att = socket
            /\ ~BadConfig
            /\ socks[calls[c].att].status = "opening"
            /\ socks[calls[c].att].promise = "pending"
            /\ SockConnect(calls[c].att) ) =>
            /\ connectionState' = CONNECTED
            /\ JoinedOn(calls[c].att, out')
            /\ calls'[c].settled = "resolved"]_vars

\* a first attempt failed without ever connecting (state ERROR), a second
\* connect() call then opened a transport that connected and joined
C16_Witness ==
  /\ Len(calls) = 2
  /\ calls[1].op = "connect" /\ calls[1].settled = "rejected"
  /\ calls[1].error \in AttemptErrors
  /\ calls[2].op = "connect" /\ calls[2].settled = "resolved"
  /\ Len(socks) = 2
  /\ ~JoinedOn(1, out)
  /\ socks[1].promise = "rejected"
  /\ socks[2].status = "connected"
  /\ connectionState = CONNECTED
  /\ JoinedOn(2, out)

(* C17: a transport disconnect event received while CONNECTED sets the   *)
(* state to DISCONNECTED and the membership flag to false; a sendMessage   *)
(* call made afterwards, in that state, opens a transport, and when that   *)
(* transport connects (still the current one, the configuration still      *)
(* valid) the call emits a new JOIN envelope and then its SEND envelope on *)
(* it.                                                                     *)
C17_DropThenSendRejoins ==
  [][/\ \A s \in DOMAIN socks :
          ( /\ connectionState = CONNECTED
            /\ socks[s].status = "connected"
            /\ SockDisconnect(s) ) =>
            connectionState' = DISCONNECTED /\ roomJoined' = FALSE
     /\ ( /\ IsNewCall
          /\ nDrops > 0
          /\ connectionState = DISCONNECTED
          /\ ~BadConfig
          /\ CallSendMessage("hi") ) =>
            /\ Len(socks') = Len(socks) + 1
            /\ calls'[NextCall].pc = "awaitConnect"
            /\ calls'[NextCall].att = socket'
            /\ out' = out
     /\ \A c \in SendCalls :
          ( /\ calls[c].pc = "awaitConnect"
            /\ calls[c].att = socket
            /\ nDrops > 0
            /\ ~BadConfig
            /\ socks[socket].status = "opening"
            /\ socks[socket].promise = "pending"
            /\ SockConnect(socket) ) =>
            /\ Len(out') = Len(out) + 2
            /\ out'[Len(out) + 1] = [JoinOf(config.roomId) EXCEPT !.sock = socket]
            /\ out'[Len(out) + 2].type = SEND_MESSAGE
            /\ out'[Len(out) + 2].sock = socket
            /\ out'[Len(out) + 2].payload.messageId = c]_vars

\* connect, join, connection loss, then a sendMessage that reconnected,
\* rejoined and sent
C17_Witness ==
  /\ Len(calls) = 2
  /\ calls[1].op = "connect" /\ calls[2].op = "sendMessage"
  /\ calls[2].settled = "resolved"
  /\ nDrops = 1
  /\ Len(out) = 3
  /\ out[1].type = ROOM_JOINING /\ out[1].sock = 1
  /\ out[2].type = ROOM_JOINING /\ out[2].sock = 2
  /\ out[3].type = SEND_MESSAGE /\ out[3].sock = 2

(* C18: after a transport disconnect event the queue and the resolvers    *)
(* are both empty.                                                         *)
C18_DisconnectClears ==
  [][\A s \in DOMAIN socks :
       (socks[s].status = "connected" /\ SockDisconnect(s)) =>
         messageQueue' = <<>> /\ resolvers' = <<>>]_vars

(* C19: a disconnect() call changes neither the connection state nor the *)
(* membership flag, and with no transport (this.socket null) it changes    *)
(* nothing at all.                                                         *)
C19_DisconnectLeavesState ==
  [][/\ socket = 0 => disconnect(W) = W
     /\ CallDisconnect =>
          connectionState' = connectionState /\ roomJoined' = roomJoined]_vars

(* C20: a setConfig call with a critical change whose merged             *)
(* configuration has all five identity fields set calls connect() in       *)
(* whatever state it is made (with agent = room, so that connect() goes on *)
(* to open a transport), and the connection state is DISCONNECTED when     *)
(* that connect() begins.                                                  *)
C20_CriticalChangeReconnects ==
  [][\A partial \in Partials :
       ( /\ IsNewCall
         /\ criticalChange(config, Merge(config, partial))
         /\ AllPopulated(Merge(config, partial))
         /\ Merge(config, partial).agentId = Merge(config, partial).roomId
         /\ Len(socks) < MaxSockets
         /\ CallSetConfig(partial) ) =>
         /\ Len(socks') = Len(socks) + 1
         /\ setConfigHead(W, partial).connectionState = DISCONNECTED]_vars

\* a setConfig call whose merged configuration changes an identity field and
\* leaves one of the five empty
CriticalToIncomplete(partial) ==
  /\ criticalChange(config, Merge(config, partial))
  /\ ~AllPopulated(Merge(config, partial))

(* C21: a setConfig call with a critical change whose merged configuration *)
(* leaves one of the five identity fields empty opens no transport,        *)
(* returns in the same step, and when it returns the connection state is   *)
(* DISCONNECTED and no transport is connected.                             *)
C21_IncompleteStaysDisconnected ==
  [][\A partial \in Partials :
       ( /\ IsNewCall
         /\ CriticalToIncomplete(partial)
         /\ CallSetConfig(partial) ) =>
         /\ Len(socks') = Len(socks)
         /\ calls'[NextCall].settled = "resolved"
         /\ connectionState' = DISCONNECTED
         /\ \A s \in DOMAIN socks' : socks'[s].status # "connected"]_vars

\* agent id and room id are equal whenever both are set
ConfigIdentity ==
  (config.agentId # "" /\ config.roomId # "") => config.agentId = config.roomId

(* C22: configuration identity.  If the configured agent id and room id   *)
(* are equal whenever both are non-empty, they still are after any call:   *)
(* no setConfig, switchAgent or connect call (nor any other step) leads    *)
(* from a state with the identity to one without it.                       *)
C22_ConfigIdentity ==
  [][ConfigIdentity => ConfigIdentity']_vars

\* what a step appended to an observer's record of calls
Added(old, new) == SubSeq(new, Len(old) + 1, Len(new))
Extends(old, new) == Len(new) >= Len(old) /\ SubSeq(new, 1, Len(old)) = old

\* seq lists the successive values of a variable that went from `from` to
\* `to`, each different from the one before
IsChain(from, seq, to) ==
  IF seq = <<>> THEN to = from
  ELSE /\ seq[1] # from
       /\ \A i \in 1..(Len(seq) - 1) : seq[i + 1] # seq[i]
       /\ seq[Len(seq)] = to

(* C23: state-change notification.  In every step, each registered        *)
(* state-change observer is called once for every change of the            *)
(* connection state to a different value, with the new value, in order,    *)
(* and is not called when the state is set to the value it already has.    *)
C23_StateChangeNotified ==
  [][\A l \in Ran(stateChangeListeners) :
       /\ Extends(stateHeard[l], stateHeard'[l])
       /\ IsChain(connectionState, Added(stateHeard[l], stateHeard'[l]),
                  connectionState')]_vars

\* two observers heard connect, connected and the disconnect made by a
\* setConfig call whose closing updateState(DISCONNECTED) changed nothing
C23_Witness ==
  /\ Len(stateChangeListeners) = 2
  /\ stateHeard[1] = <<CONNECTING, CONNECTED, DISCONNECTED>>
  /\ stateHeard[2] = stateHeard[1]
  /\ config.userId = ""
  /\ \E c \in DOMAIN calls :
       calls[c].op = "setConfig" /\ calls[c].settled = "resolved"
  /\ connectionState = DISCONNECTED

\* the state with every observer well-behaved
Wok == [W EXCEPT !.throwing = {}]

\* connection state, queue and resolvers after the step are those of w
SameSession(w) ==
  /\ connectionState' = w.connectionState
  /\ messageQueue' = w.messageQueue
  /\ resolvers' = w.resolvers

\* the observers of one kind were all called alike by the step
ToldAlike(ls, old, new) ==
  \A i \in DOMAIN ls : \A j \in DOMAIN ls :
    /\ Extends(old[ls[i]], new[ls[i]])
    /\ Added(old[ls[i]], new[ls[i]]) = Added(old[ls[j]], new[ls[j]])

(* C24: observer isolation.  Whatever observers fail when called, a step   *)
(* calls all registered observers of a kind alike (a failing observer      *)
(* stops the notification of no other), and the connection state, the      *)
(* queue and the resolvers after the step are what they would be had no    *)
(* observer failed.                                                        *)
C24_ObserverIsolation ==
  [][/\ ToldAlike(stateChangeListeners, stateHeard, stateHeard')
     /\ ToldAlike(errorListeners, errorHeard, errorHeard')
     /\ ToldAlike(messageListeners, heard, heard')
     /\ (throwing # {} /\ throwing' = throwing) =>
          /\ \A s \in DOMAIN socks :
               /\ (socks'[s].status = "connected" /\ SockConnect(s)) =>
                    SameSession(onConnect(Wok, s))
               /\ (socks[s].timer /\ ~socks'[s].timer /\ ConnectionTimeout(s)) =>
                    SameSession(onConnectionTimeout(Wok, s))
               /\ (socks'[s].status = "closed" /\ ReconnectFailed(s)) =>
                    SameSession(onReconnectFailed(Wok, s))
               /\ (nDrops' # nDrops /\ SockDisconnect(s)) =>
                    SameSession(onDisconnect(Wok, s))
               /\ IsArrival =>
                    \A data \in Envelopes(nIn + 1) :
                      MessageBroadcast(s, data) =>
                        SameSession(onMessageBroadcast(Wok, data))
          /\ (calls' = calls /\ CallDisconnect) => SameSession(disconnect(Wok))
          /\ IsNewCall =>
               /\ CallConnect => SameSession(connect(Wok).w)
               /\ \A partial \in ObsPartials :
                    CallSetConfig(partial) =>
                      SameSession(setConfig([Wok EXCEPT !.calls = Append(calls,
                                               NewCall("setConfig", <<>>, nIn))],
                                            NextCall, partial))]_vars

\* a failing message observer, registered first, was called with a valid
\* reply, and so was the observer registered after it
C24_Witness ==
  /\ <<"message", 1>> \in throwing
  /\ Len(messageListeners) = 2
  /\ heard[2] # <<>> /\ heard[1] = heard[2]
  /\ listenerErrors = 1
  /\ messageQueue # <<>>

SwitchCalls == {c \in DOMAIN calls : calls[c].op = "switchAgent"}

\* the JOIN envelopes for room x emitted on transport s, among o
JoinsFor(x, s, o) ==
  {i \in DOMAIN o : /\ o[i].type = ROOM_JOINING
                    /\ o[i].sock = s
                    /\ o[i].payload.roomId = x}

(* C25: when a switchAgent(T, T) call resolves, the configured agent and   *)
(* room are T, the connection state is CONNECTED and exactly one JOIN      *)
(* envelope for room T has been emitted on the current transport; when     *)
(* the connect attempt it awaits fails, the call is rejected with that     *)
(* failure.                                                                *)
C25_SwitchReconnects ==
  [][\A c \in SwitchCalls :
       /\ (calls[c].settled = "pending" /\ calls'[c].settled = "resolved") =>
            /\ config'.agentId = calls[c].arg[1]
            /\ config'.roomId = calls[c].arg[1]
            /\ connectionState' = CONNECTED
            /\ socket' # 0
            /\ Cardinality(JoinsFor(calls[c].arg[1], socket', out')) = 1
       /\ ( /\ calls[c].pc = "awaitConnect"
            /\ socks[calls[c].att].promise = "pending"
            /\ socks'[calls[c].att].promise = "rejected" ) =>
            /\ calls'[c].settled = "rejected"
            /\ calls'[c].error \in AttemptErrors]_vars

ToolCalls == {c \in DOMAIN calls : calls[c].op = "set_agent"}

\* the tool returned its success report / its error object
ReportsSuccess(call) ==
  /\ call.settled = "resolved"
  /\ call.result # <<>>
  /\ "success" \in DOMAIN call.result[1]

ReportsError(call) ==
  /\ call.settled = "resolved"
  /\ call.result # <<>>
  /\ "error" \in DOMAIN call.result[1]

(* C26: the set_agent tool called with an empty agent_id or room_id, or    *)
(* with agent_id different from room_id, returns an error result and       *)
(* changes neither the configuration nor the connection; and in the step   *)
(* in which a set_agent call reports success the connection state is       *)
(* CONNECTED.  The tool never throws.                                      *)
C26_SetAgentTool ==
  [][/\ IsNewCall =>
          \A a \in IdOrEmpty, r \in IdOrEmpty :
            ((a = "" \/ r = "" \/ a # r) /\ CallSetAgent(a, r)) =>
              /\ ReportsError(calls'[NextCall])
              /\ \A c \in DOMAIN calls : calls'[c] = calls[c]
              /\ UNCHANGED <<config, connectionState, roomJoined, socket, socks,
                             out>>
     /\ \A c \in DOMAIN calls' :
          calls'[c].op = "set_agent" =>
            /\ calls'[c].settled # "rejected"
            /\ ( /\ ReportsSuccess(calls'[c])
                 /\ c \in DOMAIN calls => ~ReportsSuccess(calls[c]) ) =>
                 connectionState' = CONNECTED]_vars

\* a connected session in which one set_agent call was refused for its
\* parameters, one reported success and one reported a failed reconnect
C26_Witness ==
  /\ \E c \in ToolCalls :
       calls[c].result = <<ErrorObj("mustBeIdentical")>>
  /\ \E c \in ToolCalls : ReportsSuccess(calls[c])
  /\ \E c \in ToolCalls : calls[c].result = <<ErrorObj("failedToEstablish")>>

(* C27: at most one JOIN envelope is emitted on a transport between a      *)
(* connect event of that transport and its next disconnect.                *)
C27_OneJoinPerSession ==
  \A s \in DOMAIN socks : Len(socks[s].joins) <= 1

\* the SEND envelopes a step emitted
NewSends == {i \in DOMAIN out' : i > Len(out) /\ out'[i].type = SEND_MESSAGE}

(* C28: whenever sendMessage or sendMessageAndGetResponse emits a SEND      *)
(* envelope the membership flag is true, and the transport it is emitted   *)
(* on has, in its present connection, been sent a JOIN envelope for the    *)
(* configured room.                                                        *)
C28_SendOnlyWhenJoined ==
  [][\A i \in NewSends :
       /\ roomJoined'
       /\ socks'[out'[i].sock].status = "connected"
       /\ \E j \in DOMAIN socks'[out'[i].sock].joins :
            socks'[out'[i].sock].joins[j] = config'.roomId]_vars

\* the JOIN envelopes a step emitted
NewJoins == {i \in DOMAIN out' : i > Len(out) /\ out'[i].type = ROOM_JOINING}

\* joinRoom() has nothing to do: already joined, transport not connected,
\* or agent or room unset
JoinIdle ==
  \/ roomJoined
  \/ ~SockConnected(W, socket)
  \/ config.agentId = "" \/ config.roomId = ""

(* C29: joinRoom() called in any reachable state emits nothing and leaves  *)
(* the membership flag (and everything else) as it is when the session is  *)
(* already joined, when the transport is not connected, or when agent or   *)
(* room id is unset; otherwise it emits exactly one JOIN envelope naming   *)
(* the configured room with the list [configured agent] and sets the       *)
(* flag.  Every JOIN envelope a step emits has this form, and the flag is  *)
(* true after the step.                                                    *)
C29_JoinFrame ==
  [][/\ IF JoinIdle THEN joinRoom(W) = W
        ELSE /\ joinRoom(W).out =
                  Append(out, [sock |-> socket, type |-> ROOM_JOINING,
                               payload |-> [roomId |-> config.roomId,
                                            agentIds |-> <<config.agentId>>]])
             /\ joinRoom(W).roomJoined
             /\ \A f \in DOMAIN W \ {"out", "roomJoined", "socks"} :
                  joinRoom(W)[f] = W[f]
     /\ Cardinality(NewJoins) <= 1
     /\ \A i \in NewJoins :
          /\ out'[i] = [sock |-> socket', type |-> ROOM_JOINING,
                        payload |-> [roomId |-> config'.roomId,
                                     agentIds |-> <<config'.agentId>>]]
          /\ roomJoined']_vars

\* a session that joined once, lost its connection and had agent and room
\* unset before the transport reconnected: the second joinRoom() did nothing
C29_Witness ==
  /\ SockConnected(W, socket)
  /\ connectionState = CONNECTED
  /\ nDrops = 1
  /\ config.agentId = "" /\ config.roomId = ""
  /\ ~roomJoined
  /\ Cardinality(Joins) = 1

\* a switchAgent call runs its reset in this step: at once when the transport
\* is not connected, else when its grace delay has elapsed
SwitchResets ==
  \E k \in DOMAIN calls' :
    /\ calls'[k].op = "switchAgent"
    /\ k \in DOMAIN calls => calls[k].pc = "awaitDelay"
    /\ calls'[k].pc # "awaitDelay"

\* sendMessageAndGetResponse has pushed its resolver and armed its response
\* timer in the step that emits its SEND envelope
RegisteredAtEmission ==
  \A i \in NewSends :
    calls'[out'[i].payload.messageId].op = "sendMessageAndGetResponse" =>
      /\ InResolvers(W', out'[i].payload.messageId)
      /\ calls'[out'[i].payload.messageId].timer

C31_WaitTakesQueued ==
  [][( /\ IsNewCall
       /\ calls'[NextCall].op = "waitForNextMessage"
       /\ messageQueue # <<>> ) =>
       /\ calls'[NextCall].settled = "resolved"
       /\ calls'[NextCall].result = <<Head(messageQueue)>>
       /\ messageQueue' = Tail(messageQueue)
       /\ resolvers' = resolvers
       /\ ~calls'[NextCall].timer
       /\ \A c \in DOMAIN calls : calls'[c] = calls[c]]_vars

\* a waitForNextMessage call took the older of two queued replies and left
\* the newer one in the queue
C31_Witness ==
  \E c \in WaitCalls :
    /\ GotReply(c)
    /\ Len(validIds) >= 2
    /\ calls[c].result[1].id = validIds[1]
    /\ validIds[2] <= calls[c].at
    /\ messageQueue # <<>>
    /\ Head(messageQueue).id = validIds[2]
    /\ ~calls[c].timer

\* the calls that wait for a reply
Waiters == WaitCalls \cup AwaitCalls

\* the calls this step settles, the call made in this step included
NewlySettled ==
  {c \in DOMAIN calls' :
     /\ c \in DOMAIN calls => calls[c].settled = "pending"
     /\ calls'[c].settled # "pending"}

\* a response timer of some call fires in this step
IsTimerStep ==
  /\ ~IsArrival
  /\ ~IsNewCall
  /\ \E c \in DOMAIN calls : calls[c].timer /\ ~calls'[c].timer

(* C32: every waiter is settled once at most.  A call that has been        *)
(* settled has no timer armed and no resolver registered, so that neither  *)
(* a later timer nor a later reply reaches it, and its outcome never       *)
(* changes; no two calls are resolved with the same reply; and a response  *)
(* timer that fires settles one call at most.                              *)
C32_SettledOnce ==
  [][/\ \A c \in Waiters :
          calls[c].settled # "pending" =>
            /\ calls'[c] = calls[c]
            /\ ~calls[c].timer
            /\ ~InResolvers(W, c)
            /\ ~InResolvers(W', c)
     /\ \A c \in NewlySettled :
          calls'[c].op \in {"waitForNextMessage", "sendMessageAndGetResponse"} =>
            ~calls'[c].timer /\ ~InResolvers(W', c)
     /\ \A c, d \in DOMAIN calls' :
          (GotReply(c)' /\ GotReply(d)' /\ c # d) =>
            calls'[c].result[1].id # calls'[d].result[1].id
     /\ IsTimerStep => Cardinality(NewlySettled) <= 1
     /\ IsArrival =>
          \A c \in NewlySettled : \A d \in DOMAIN calls :
            GotReply(d) => calls'[c].result[1].id # calls[d].result[1].id]_vars

\* one waiter was resolved by a reply and another timed out, a further
\* reply arrived later, and a waiter is still pending
C32_Witness ==
  \E c, d, e \in Waiters :
    /\ GotReply(c)
    /\ TimedOut(calls[d])
    /\ calls[e].settled = "pending"
    /\ InResolvers(W, e)
    /\ nIn > calls[c].result[1].id

(* C33: connectionState becomes CONNECTED only from CONNECTING, in the     *)
(* 'connect' event of the transport of the connect attempt in flight (the  *)
(* current socket, its promise still pending); never from DISCONNECTED or  *)
(* ERROR.                                                                  *)
C33_ConnectedFromConnecting ==
  [][(connectionState # CONNECTED /\ connectionState' = CONNECTED) =>
       /\ connectionState = CONNECTING
       /\ socket # 0
       /\ socks[socket].status = "opening"
       /\ socks[socket].promise = "pending"
       /\ socks'[socket].status = "connected"]_vars

(* C34: a waitForNextMessage call that registers a waiter arms its timer   *)
(* with the timeout it was passed whenever one was passed, 0 included,     *)
(* and with the configured responseTimeout only when none was passed.      *)
C34_CallerTimeout ==
  [][( /\ IsNewCall
       /\ calls'[NextCall].op = "waitForNextMessage"
       /\ calls'[NextCall].timer ) =>
       calls'[NextCall].delay =
         IF calls'[NextCall].arg = <<>> THEN config.responseTimeout
         ELSE calls'[NextCall].arg[1]]_vars

\* setConfig(partial) called in state w goes on to call connect()
SetConfigConnects(w, partial) ==
  LET w2 == setConfigHead(w, partial)
  IN /\ \/ w2.connectionState = DISCONNECTED
        \/ /\ criticalChange(w.config, w2.config)
           /\ w2.connectionState # CONNECTING
     /\ AllPopulated(w2.config)

(* C35: when the connect() that setConfig attempts fails, by throwing in   *)
(* the call or by its promise being rejected later, setConfig returns      *)
(* normally, connectionState is DISCONNECTED when it returns and, for a    *)
(* failure in the call, the configuration is the merged one.               *)
C35_SetConfigSwallowsFailure ==
  [][/\ \A partial \in Partials :
          ( /\ IsNewCall
            /\ calls'[NextCall].op = "setConfig"
            /\ SetConfigConnects(W, partial)
            /\ connect(setConfigHead(W, partial)).res \in ConfigErrors
            /\ CallSetConfig(partial) ) =>
            /\ calls'[NextCall].settled = "resolved"
            /\ connectionState' = DISCONNECTED
            /\ config' = Merge(config, partial)
     /\ \A c \in DOMAIN calls :
          ( /\ calls[c].op = "setConfig"
            /\ calls[c].pc = "awaitConnect"
            /\ socks[calls[c].att].promise = "pending"
            /\ socks'[calls[c].att].promise = "rejected" ) =>
            /\ calls'[c].settled = "resolved"
            /\ connectionState' = DISCONNECTED
            /\ config' = config]_vars

(* C36: the queue and the resolvers are never both non-empty: while a      *)
(* valid reply is queued no waiter is registered, and while a waiter is    *)
(* registered the queue is empty.                                          *)
C36_QueueOrWaiters == messageQueue = <<>> \/ resolvers = <<>>

(* C37: a reply that settles a waitForNextMessage or a                     *)
(* sendMessageAndGetResponse call was sent by the agent that is configured *)
(* when the call is settled with it.                                       *)
C37_ReplyFromConfiguredAgent ==
  [][\A c \in NewlySettled :
       ( /\ calls'[c].op \in {"waitForNextMessage", "sendMessageAndGetResponse"}
         /\ GotReply(c)' ) =>
         calls'[c].result[1].senderId = config'.agentId]_vars

\* a handler of a transport other than the current socket runs in this step
IsStaleEvent ==
  \E s \in DOMAIN socks :
    /\ s # socket
    /\ \/ socks'[s].status # socks[s].status
       \/ socks'[s].timer # socks[s].timer
       \/ socks'[s].promise # socks[s].promise

(* C38: connectionState is CONNECTED exactly when the current socket is    *)
(* connected, and an event of a transport that is no longer the current    *)
(* socket changes neither connectionState nor the membership flag.         *)
C38_StateMatchesTransport ==
  [][/\ (connectionState' = CONNECTED) <=> SockConnected(W', socket')
     /\ IsStaleEvent =>
          /\ connectionState' = connectionState
          /\ roomJoined' = roomJoined]_vars

\* the connect-timeout timer of attempt s fires in this step
TimerFires(s) ==
  /\ socks[s].timer
  /\ ~socks'[s].timer
  /\ socks'[s].status = socks[s].status

(* C39: the connect-timeout timer of a connect attempt whose promise has   *)
(* been settled changes nothing when it fires: connectionState stays as it *)
(* is and no error observer is called.                                     *)
C39_SettledAttemptTimerInert ==
  [][\A s \in DOMAIN socks :
       (socks[s].promise # "pending" /\ TimerFires(s)) =>
         /\ connectionState' = connectionState
         /\ errorHeard' = errorHeard]_vars

(* C40: a setConfig call that changes nothing but connectionTimeout or     *)
(* responseTimeout opens no transport, closes none, and leaves             *)
(* connectionState, the current socket and the membership flag as they     *)
(* were, whatever the state it is called in.                               *)
C40_TimeoutsOnlyFrame ==
  [][\A partial \in TimePartials :
       ( /\ IsNewCall
         /\ calls'[NextCall].op = "setConfig"
         /\ CallSetConfig(partial) ) =>
         /\ socks' = socks
         /\ socket' = socket
         /\ connectionState' = connectionState
         /\ roomJoined' = roomJoined]_vars

====
